---- MODULE Spec2Model ----
(***************************************************************************)
(* Model of src/api/index.js: the registrant CRUD API over t1."T1_USERS".  *)
(*                                                                         *)
(* The store is the table, a sequence of rows whose index is the SERIAL id *)
(* (rows are never physically removed by any statement of the file).       *)
(* Under Spec every request handler is one action; the statements a       *)
(* handler issues against the pool are part of its action.  Under SpecConc *)
(* the list read and the update are broken at their awaits (`tasks`) and   *)
(* run interleaved.  Any statement can fail with a store error (the `fail` *)
(* inputs); regno carries a UNIQUE constraint (error code 23505).          *)
(*                                                                         *)
(* Time: instants are counted in ticks, TicksPerDay ticks to a calendar    *)
(* day, so that setHours(0,0,0,0) (StartOfDay) is not the identity.  The   *)
(* server's local zone is taken to be UTC.  Columns that hold dates hold   *)
(* instants (timestamp columns); NULL is NullN / NullS.                    *)
(*                                                                         *)
(* Not modelled: the CORS / API-key / "SELECT 1" middleware (lines         *)
(* 192-231), the /api/users/filters route, the list route's query filters  *)
(* and pagination (a list is read with an empty query string), and the     *)
(* pass-through columns other than name.                                   *)
(***************************************************************************)
EXTENDS Integers, Sequences, FiniteSets, TLC

VARIABLES store, now, writes, req, resp, stmt, tasks

vars == <<store, now, writes, req, resp, stmt, tasks>>

----------------------------------------------------------------------------
(* Bounds of the model                                                     *)

MaxWrites == 2      \* create / update / soft-delete requests in one run
MaxClock == 1       \* ticks the clock advances in one run

(* Units and the fixed calendar of the model                               *)
TicksPerDay == 2
Day0 == 200
Now0 == Day0 * TicksPerDay + 1

NullN == -1
NullS == "NULL"
NaN == -7

----------------------------------------------------------------------------
(* PLAN_MAP, lines 48-53                                                   *)

PLAN_MAP ==
  [ entry    |-> [amount |-> 100,  valid_days |-> 10],
    silver   |-> [amount |-> 1770, valid_days |-> 90],
    gold     |-> [amount |-> 2950, valid_days |-> 180],
    platinum |-> [amount |-> 4720, valid_days |-> 365] ]

(* String.prototype.toLowerCase on the strings the model uses              *)
toLowerCase(s) ==
  CASE s = "Gold"    -> "gold"
    [] s = "EXPIRED" -> "expired"
    [] OTHER         -> s

(* Date values as a request or the handler holds them: a Date instance     *)
(* ("date"), a string new Date() parses ("iso"), a D-M-YYYY string         *)
(* ("dmy"), or a string nothing parses ("garbage").  t is the instant the  *)
(* value names.                                                            *)
DateObj(t) == [fmt |-> "date", t |-> t]
NoDate == [fmt |-> "none", t |-> NullN]

StartOfDay(t) == (t \div TicksPerDay) * TicksPerDay

(* parseAnyDate, lines 56-97.  `v` is a date value or NoDate (falsy)       *)
parseAnyDate(v, clock) ==
  CASE v.fmt = "none"    -> clock
    [] v.fmt = "date"    -> v.t
    [] v.fmt = "iso"     -> v.t
    [] v.fmt = "dmy"     -> StartOfDay(v.t)
    [] OTHER             -> clock

(* calculateexpiry_date, lines 99-109.  `plan` is the string the caller    *)
(* passes (the callers pass a non-empty, lower-cased string); an unknown   *)
(* plan resolves to PLAN_MAP.entry.                                        *)
PlanRule(plan) ==
  LET p == toLowerCase(IF plan = "" \/ plan = NullS THEN "entry" ELSE plan)
  IN  IF p \in DOMAIN PLAN_MAP THEN PLAN_MAP[p] ELSE PLAN_MAP.entry

calculateexpiry_date(reg_date, plan, clock) ==
  LET rule == PlanRule(plan)
      reg  == parseAnyDate(reg_date, clock)
  IN  [ expiry_date |-> DateObj(reg + rule.valid_days * TicksPerDay),
        amount      |-> rule.amount,
        valid_days  |-> rule.valid_days ]

(* getplan_status, lines 111-116                                           *)
getplan_status(expiry_date, clock) ==
  IF parseAnyDate(expiry_date, clock) < StartOfDay(clock)
  THEN "expired" ELSE "active"

----------------------------------------------------------------------------
(* Rows of t1."T1_USERS" and request bodies                                *)

(* A timestamp column as the pg driver hands it to the handler             *)
RowDate(t) == IF t = NullN THEN NoDate ELSE DateObj(t)

NullRow(id) ==
  [ id |-> id, regno |-> NullN, name |-> NullS, reg_date |-> NullN,
    plan |-> NullS, amount |-> NullN, valid_days |-> NullN,
    expiry_date |-> NullN, plan_status |-> NullS, is_deleted |-> FALSE,
    deleted_by |-> NullS, created_at |-> NullN, updated_at |-> NullN,
    updateat |-> NullN ]

(* rowToUser, lines 119-189: the response carries every modelled column    *)
(* but updateat, which the mapper does not copy.                           *)
rowToUser(row) ==
  [ id |-> row.id, regno |-> row.regno, name |-> row.name,
    reg_date |-> row.reg_date, plan |-> row.plan, amount |-> row.amount,
    valid_days |-> row.valid_days, expiry_date |-> row.expiry_date,
    plan_status |-> row.plan_status, deleted_by |-> row.deleted_by,
    is_deleted |-> row.is_deleted, created_at |-> row.created_at,
    updated_at |-> row.updated_at ]

(* A body is the set of its defined keys and their values (a key outside   *)
(* `keys` reads as undefined).                                             *)
EmptyBody ==
  [ keys |-> {},
    v |-> [ regno |-> NullN, name |-> NullS, reg_date |-> NoDate,
            plan |-> NullS, amount |-> NullN, valid_days |-> NullN,
            expiry_date |-> NoDate, plan_status |-> NullS,
            is_deleted |-> FALSE, deleted_by |-> NullS,
            created_at |-> NoDate, role |-> NullS ] ]

Has(b, k) == k \in b.keys
With(b, k, val) == [keys |-> b.keys \cup {k}, v |-> [b.v EXCEPT ![k] = val]]

(* JavaScript truthiness of body.plan and of body.reg_date                 *)
TruthyStr(b, k) == Has(b, k) /\ b.v[k] # "" /\ b.v[k] # NullS
TruthyDate(b, k) == Has(b, k) /\ b.v[k].fmt # "none"

DateKeys == {"reg_date", "expiry_date", "created_at"}

(* The value a column takes from a bound parameter: the driver sends a     *)
(* Date or a date string and the timestamp column holds its instant.       *)
ToDB(col, val) == IF col \in DateKeys THEN val.t ELSE val

----------------------------------------------------------------------------
(* The Field Mapper                                                        *)

(* `mapping` of POST /api/users, lines 276-339, in declaration order,      *)
(* restricted to the modelled keys.  Pairs are <<body key, column>>.       *)
CreateMapping ==
  << <<"regno", "regno">>, <<"name", "name">>, <<"reg_date", "reg_date">>,
     <<"plan", "plan">>, <<"amount", "amount">>,
     <<"valid_days", "valid_days">>, <<"expiry_date", "expiry_date">>,
     <<"plan_status", "plan_status">>, <<"is_deleted", "is_deleted">>,
     <<"created_at", "created_at">> >>

(* `mapping` of PUT /api/users/:regno, lines 787-851                       *)
UpdateMapping ==
  << <<"regno", "regno">>, <<"name", "name">>, <<"reg_date", "reg_date">>,
     <<"plan", "plan">>, <<"amount", "amount">>,
     <<"valid_days", "valid_days">>, <<"expiry_date", "expiry_date">>,
     <<"plan_status", "plan_status">>, <<"deleted_by", "deleted_by">>,
     <<"is_deleted", "is_deleted">> >>

(* The loops of lines 346-352 and 854-860: the mapping entries whose key   *)
(* is not undefined in the body, in mapping order.                         *)
MappedEntries_unfiltered(mapping, body) == mapping

MappedEntries(mapping, body) ==
  LET Present(kc) == Has(body, kc[1])
  IN  SelectSeq(mapping, Present)

BuildCols(mapping, body) ==
  LET es == MappedEntries(mapping, body)
  IN  [i \in 1..Len(es) |-> es[i][2]]

BuildValues(mapping, body) ==
  LET es == MappedEntries(mapping, body)
  IN  [i \in 1..Len(es) |-> body.v[es[i][1]]]

(* The row a statement leaves when it writes vals[i] to column cols[i]     *)
ApplyCols(row, cols, vals) ==
  [ f \in DOMAIN row |->
      IF \E i \in 1..Len(cols) : cols[i] = f
      THEN LET i == CHOOSE j \in 1..Len(cols) : cols[j] = f
           IN  ToDB(f, vals[i])
      ELSE row[f] ]

NoStmt == [kind |-> "none", cols |-> <<>>, vals |-> <<>>, fixed |-> <<>>,
           body |-> EmptyBody]

Response(op, code, msg, users) ==
  [op |-> op, code |-> code, msg |-> msg, users |-> users, exists |-> FALSE]

(* The UNIQUE constraint on regno: a non-null regno held by another row    *)
RegnoTaken(st, regno, selfId) ==
  /\ regno # NullN
  /\ \E i \in 1..Len(st) : i # selfId /\ st[i].regno = regno

(* SELECT ... WHERE regno = $1 LIMIT 1: the id of the row, 0 if none       *)
RowByRegno(st, regno) ==
  IF \E i \in 1..Len(st) : st[i].regno = regno
  THEN CHOOSE i \in 1..Len(st) : st[i].regno = regno
  ELSE 0

----------------------------------------------------------------------------
(* updateplan_statusInDB, lines 234-247.  Returns the row the store holds  *)
(* afterwards and the status handed back to the caller; `fails` says that  *)
(* the UPDATE statement is rejected by the store.                          *)
StoredStatus(row) ==
  IF row.plan_status = NullS THEN "" ELSE toLowerCase(row.plan_status)

updateplan_statusInDB(row, fails, clock) ==
  LET status == getplan_status(RowDate(row.expiry_date), clock)
  IN  IF status # StoredStatus(row)
      THEN IF fails
           THEN [ row    |-> row,
                  status |-> IF row.plan_status = NullS \/ row.plan_status = ""
                             THEN "expired" ELSE toLowerCase(row.plan_status) ]
           ELSE [ row    |-> [row EXCEPT !.plan_status = status,
                                         !.updateat = clock],
                  status |-> status ]
      ELSE [row |-> row, status |-> status]

----------------------------------------------------------------------------
(* POST /api/users, lines 251-374                                          *)

(* lines 253-273: the body after date normalisation, plan calculation and  *)
(* the forced system values                                                *)
CreateBody(raw, clock) ==
  LET b1   == IF TruthyDate(raw, "reg_date")
              THEN With(raw, "reg_date",
                        DateObj(parseAnyDate(raw.v.reg_date, clock)))
              ELSE raw
      plan == toLowerCase(IF TruthyStr(b1, "plan") THEN b1.v.plan ELSE "entry")
      calc == calculateexpiry_date(
                IF Has(b1, "reg_date") THEN b1.v.reg_date ELSE NoDate,
                plan, clock)
      b2   == With(With(With(b1, "amount", calc.amount),
                        "valid_days", calc.valid_days),
                   "expiry_date", calc.expiry_date)
      b3   == With(b2, "plan_status",
                   toLowerCase(getplan_status(calc.expiry_date, clock)))
  IN  With(With(b3, "is_deleted", FALSE), "created_at", DateObj(clock))

CreateUser(st, raw, fail, clock) ==
  LET body == CreateBody(raw, clock)
      cols == BuildCols(CreateMapping, body)
      vals == BuildValues(CreateMapping, body)
      ins  == [kind |-> "insert", cols |-> cols, vals |-> vals,
               fixed |-> <<>>, body |-> body]
      row  == ApplyCols(NullRow(Len(st) + 1), cols, vals)
  IN  IF Len(cols) = 0
      THEN [ store |-> st, stmt |-> NoStmt,
             resp |-> Response("create", 400, "No fields provided", <<>>) ]
      ELSE IF RegnoTaken(st, row.regno, 0)
      THEN [ store |-> st, stmt |-> ins,
             resp |-> Response("create", 409, "Duplicate regno", <<>>) ]
      ELSE IF fail
      THEN [ store |-> st, stmt |-> ins,
             resp |-> Response("create", 500, "err.message", <<>>) ]
      ELSE [ store |-> Append(st, row), stmt |-> ins,
             resp |-> Response("create", 201, "", <<rowToUser(row)>>) ]

----------------------------------------------------------------------------
(* PUT /api/users/:regno, lines 750-890                                    *)

(* lines 755-780: the updates after date normalisation and, when plan or   *)
(* reg_date is given, the plan recalculation against the current row       *)
UpdateBody_rebased(raw, cur, clock) ==
  LET u1 == IF TruthyDate(raw, "reg_date")
            THEN With(raw, "reg_date",
                      DateObj(parseAnyDate(raw.v.reg_date, clock)))
            ELSE raw
  IN  IF TruthyStr(u1, "plan") \/ TruthyDate(u1, "reg_date")
      THEN LET reg_date == IF TruthyDate(u1, "reg_date") THEN u1.v.reg_date
                           ELSE NoDate
               plan == toLowerCase(
                         IF TruthyStr(u1, "plan") THEN u1.v.plan
                         ELSE IF cur.plan # NullS /\ cur.plan # ""
                              THEN cur.plan ELSE "entry")
               calc == calculateexpiry_date(reg_date, plan, clock)
           IN  With(With(With(With(u1, "expiry_date", calc.expiry_date),
                              "amount", calc.amount),
                         "valid_days", calc.valid_days),
                    "plan_status",
                    toLowerCase(getplan_status(calc.expiry_date, clock)))
      ELSE u1

UpdateBody(raw, cur, clock) ==
  LET u1 == IF TruthyDate(raw, "reg_date")
            THEN With(raw, "reg_date",
                      DateObj(parseAnyDate(raw.v.reg_date, clock)))
            ELSE raw
  IN  IF TruthyStr(u1, "plan") \/ TruthyDate(u1, "reg_date")
      THEN LET reg_date == IF TruthyDate(u1, "reg_date") THEN u1.v.reg_date
                           ELSE RowDate(cur.reg_date)
               plan == toLowerCase(
                         IF TruthyStr(u1, "plan") THEN u1.v.plan
                         ELSE IF cur.plan # NullS /\ cur.plan # ""
                              THEN cur.plan ELSE "entry")
               calc == calculateexpiry_date(reg_date, plan, clock)
           IN  With(With(With(With(u1, "expiry_date", calc.expiry_date),
                              "amount", calc.amount),
                         "valid_days", calc.valid_days),
                    "plan_status",
                    toLowerCase(getplan_status(calc.expiry_date, clock)))
      ELSE u1

(* fail: "none", or the statement the store rejects: "select" (line 761),  *)
(* "update" (line 875) or "writeback" (line 880, swallowed).               *)
UpdateUser(st, regno, raw, fail, clock) ==
  LET id == RowByRegno(st, regno)
  IN  IF regno = NaN
      THEN [ store |-> st, stmt |-> NoStmt,
             resp |-> Response("update", 400, "Invalid regno", <<>>) ]
      ELSE IF fail = "select"
      THEN [ store |-> st, stmt |-> NoStmt,
             resp |-> Response("update", 400, "Bad request during update", <<>>) ]
      ELSE IF id = 0 \/ st[id].is_deleted
      THEN [ store |-> st, stmt |-> NoStmt,
             resp |-> Response("update", 404, "User not found for update", <<>>) ]
      ELSE
        LET updates == UpdateBody(raw, st[id], clock)
            cols    == BuildCols(UpdateMapping, updates)
            vals    == BuildValues(UpdateMapping, updates)
            upd     == [kind |-> "update", cols |-> cols, vals |-> vals,
                        fixed |-> <<"updated_at">>, body |-> updates]
            updated == [ApplyCols(st[id], cols, vals) EXCEPT !.updated_at = clock]
            wb      == updateplan_statusInDB(updated, fail = "writeback", clock)
        IN  IF Len(cols) = 0
            THEN [ store |-> st, stmt |-> NoStmt,
                   resp |-> Response("update", 400,
                              "No valid fields provided for update", <<>>) ]
            ELSE IF RegnoTaken(st, updated.regno, id)
            THEN [ store |-> st, stmt |-> upd,
                   resp |-> Response("update", 409, "Duplicate regno", <<>>) ]
            ELSE IF fail = "update"
            THEN [ store |-> st, stmt |-> upd,
                   resp |-> Response("update", 400,
                              "Bad request during update", <<>>) ]
            ELSE [ store |-> [st EXCEPT ![id] = wb.row], stmt |-> upd,
                   resp |-> Response("update", 200, "", <<rowToUser(updated)>>) ]

----------------------------------------------------------------------------
(* PATCH /api/users/:regno/delete, lines 892-913                           *)
DeleteUser(st, regno, raw, fail, clock) ==
  LET id == RowByRegno(st, regno)
  IN  IF regno = NaN
      THEN [ store |-> st, stmt |-> NoStmt,
             resp |-> Response("delete", 400, "Invalid regno", <<>>) ]
      ELSE IF fail
      THEN [ store |-> st, stmt |-> NoStmt,
             resp |-> Response("delete", 400, "Bad request during delete", <<>>) ]
      ELSE IF id = 0
      THEN [ store |-> st, stmt |-> NoStmt,
             resp |-> Response("delete", 404, "User not found", <<>>) ]
      ELSE [ store |-> [st EXCEPT ![id] =
                          [@ EXCEPT !.is_deleted = TRUE,
                                    !.updated_at = clock,
                                    !.deleted_by =
                                       IF Has(raw, "deleted_by")
                                       THEN raw.v.deleted_by ELSE NullS]],
             stmt |-> NoStmt,
             resp |-> Response("delete", 200,
                        "User successfully marked as deleted", <<>>) ]

----------------------------------------------------------------------------
(* GET /api/users, lines 378-555, with an empty query string: the only     *)
(* filter is is_deleted = false and the page holds every row.  Rows come   *)
(* ORDER BY created_at DESC, which is by descending id.                    *)
Reverse(s) == [i \in 1..Len(s) |-> s[Len(s) + 1 - i]]

NotDeleted(row) == ~row.is_deleted

(* fail: the count or the data query is rejected by the store;             *)
(* wbFail: the ids whose correcting write-back the store rejects.          *)
ListUsers(st, fail, wbFail, clock) ==
  LET rows  == SelectSeq(Reverse(st), NotDeleted)
      wb(r) == updateplan_statusInDB(r, r.id \in wbFail, clock)
      users == [ i \in 1..Len(rows) |->
                   [rowToUser(rows[i]) EXCEPT !.plan_status = wb(rows[i]).status] ]
  IN  IF fail
      THEN [ store |-> st, stmt |-> NoStmt,
             resp |-> Response("list", 500, "Server error fetching users", <<>>) ]
      ELSE [ store |-> [ i \in 1..Len(st) |->
                           IF st[i].is_deleted THEN st[i] ELSE wb(st[i]).row ],
             stmt |-> NoStmt,
             resp |-> Response("list", 200, "", users) ]

----------------------------------------------------------------------------
(* GET /api/users/renewals-due, lines 677-710                              *)
DefaultDays == 10

CeilDiv(a, b) == -((-a) \div b)

RenewalEntry_unstripped(u, today) ==
  LET expiry   == u.expiry_date
      diffDays == CeilDiv(expiry - today, TicksPerDay)
      m        == rowToUser(u)
  IN  [ f \in DOMAIN m \cup {"daysLeft"} |->
          CASE f = "expiry_date" -> expiry
            [] f = "daysLeft"    -> IF diffDays >= 0 THEN diffDays ELSE 0
            [] f = "plan_status" -> IF diffDays >= 0 THEN "active" ELSE "expired"
            [] OTHER             -> m[f] ]

RenewalEntry(u, today) ==
  LET expiry   == StartOfDay(u.expiry_date)
      diffDays == CeilDiv(expiry - today, TicksPerDay)
      m        == rowToUser(u)
  IN  [ f \in DOMAIN m \cup {"daysLeft"} |->
          CASE f = "expiry_date" -> expiry
            [] f = "daysLeft"    -> IF diffDays >= 0 THEN diffDays ELSE 0
            [] f = "plan_status" -> IF diffDays >= 0 THEN "active" ELSE "expired"
            [] OTHER             -> m[f] ]

(* daysParam: req.query.days, NullN when the query has none.  The rows the *)
(* report answers with, lines 679-703.                                     *)
RenewalRows(st, daysParam, clock) ==
  LET days      == IF daysParam = NullN THEN DefaultDays ELSE daysParam
      today     == StartOfDay(clock)
      limitDate == today + days * TicksPerDay
      Selected(r) == ~r.is_deleted /\ r.expiry_date # NullN
      rows      == SelectSeq(st, Selected)
      mapped    == [i \in 1..Len(rows) |-> RenewalEntry(rows[i], today)]
      InWindow(u) == u.expiry_date >= today /\ u.expiry_date <= limitDate
  IN  SelectSeq(mapped, InWindow)

RenewalsDue_reconciling(st, daysParam, fail, clock) ==
  IF fail
  THEN [ store |-> st, stmt |-> NoStmt,
         resp |-> Response("report", 500,
                    "Error fetching renewal due users", <<>>) ]
  ELSE [ store |-> ListUsers(st, FALSE, {}, clock).store, stmt |-> NoStmt,
         resp |-> Response("report", 200, "",
                    RenewalRows(st, daysParam, clock)) ]

(* The handler issues its one SELECT and no other statement                *)
RenewalsDue(st, daysParam, fail, clock) ==
  IF fail
  THEN [ store |-> st, stmt |-> NoStmt,
         resp |-> Response("report", 500,
                    "Error fetching renewal due users", <<>>) ]
  ELSE [ store |-> st, stmt |-> NoStmt,
         resp |-> Response("report", 200, "",
                    RenewalRows(st, daysParam, clock)) ]

----------------------------------------------------------------------------
(* GET /api/users/check-regno/:regno, lines 713-724                        *)
CheckRegno(st, regno, fail) ==
  IF regno = NaN
  THEN [ store |-> st, stmt |-> NoStmt,
         resp |-> Response("check", 400, "Invalid regno", <<>>) ]
  ELSE IF fail
  THEN [ store |-> st, stmt |-> NoStmt,
         resp |-> Response("check", 500, "Error checking Reg No", <<>>) ]
  ELSE [ store |-> st, stmt |-> NoStmt,
         resp |-> [Response("check", 200, "", <<>>) EXCEPT
                     !.exists = \E i \in 1..Len(st) : st[i].regno = regno] ]

----------------------------------------------------------------------------
(* GET /api/users/:regno (fetch one), lines 727-747                        *)

(* req.params of the route: the path declares the single parameter :regno  *)
FetchParams(x) == [regno |-> x]

(* parseInt(params[name], 10): a parameter the route does not declare is   *)
(* undefined and parses to NaN                                             *)
parseIntParam(params, name) ==
  IF name \in DOMAIN params THEN params[name] ELSE NaN

FetchUser(st, x, fail, clock) ==
  LET id == parseIntParam(FetchParams(x), "id")
  IN  IF id = NaN
      THEN [ store |-> st, stmt |-> NoStmt,
             resp |-> Response("fetch", 400, "Invalid ID", <<>>) ]
      ELSE IF fail
      THEN [ store |-> st, stmt |-> NoStmt,
             resp |-> Response("fetch", 400, "Bad request or invalid ID", <<>>) ]
      ELSE IF id \notin 1..Len(st) \/ st[id].is_deleted
      THEN [ store |-> st, stmt |-> NoStmt,
             resp |-> Response("fetch", 404, "User not found", <<>>) ]
      ELSE LET doc      == st[id]
               isActive == doc.expiry_date # NullN
                           /\ doc.expiry_date >= StartOfDay(clock)
           IN  [ store |-> st, stmt |-> NoStmt,
                 resp |-> Response("fetch", 200, "",
                            << [rowToUser(doc) EXCEPT !.plan_status =
                                  IF isActive THEN "active" ELSE "expired"] >>) ]

----------------------------------------------------------------------------
(* The requests of the model                                               *)

RegnoInputs == {1, 2}
ParamInputs == RegnoInputs \cup {NaN}
DaysInputs == {NullN, 0, 5}

(* The values a request gives to the keys it carries                       *)
InputValue ==
  [ name        |-> "A",
    plan        |-> "Gold",
    reg_date    |-> [fmt |-> "dmy", t |-> (Day0 - 10) * TicksPerDay],
    amount      |-> 5,
    valid_days  |-> 7,
    expiry_date |-> [fmt |-> "iso", t |-> (Day0 + 5) * TicksPerDay + 1],
    plan_status |-> "EXPIRED",
    is_deleted  |-> TRUE,
    deleted_by  |-> "eve",
    created_at  |-> [fmt |-> "iso", t |-> 0],
    role        |-> "admin" ]

(* An unknown plan with a date nothing parses                              *)
OddValue ==
  [ plan |-> "bogus", reg_date |-> [fmt |-> "garbage", t |-> NullN] ]

(* The key sets of the bodies sent for the record under study               *)
BodyKeys ==
  { {}, {"plan"}, {"reg_date"}, {"plan", "reg_date"}, {"name"},
    {"amount", "valid_days"}, {"plan", "amount", "valid_days"},
    {"expiry_date"}, {"plan_status"}, {"is_deleted"}, {"deleted_by"},
    {"created_at"}, {"name", "role"} }

BodyOf(keys, values) ==
  [ keys |-> keys,
    v |-> [k \in DOMAIN EmptyBody.v |->
             IF k \in keys THEN values[k] ELSE EmptyBody.v[k]] ]

PartBodies ==
  { BodyOf(ks, InputValue) : ks \in BodyKeys }
    \cup { BodyOf({"plan", "reg_date"},
                  [InputValue EXCEPT !.plan = OddValue.plan,
                                     !.reg_date = OddValue.reg_date]) }

(* Bodies of a create: any body for regno 1, two bodies for the second     *)
(* record (regno 2), and bodies that carry no regno                        *)
CreateBodies ==
  { With(b, "regno", 1) : b \in PartBodies }
    \cup { With(BodyOf(ks, InputValue), "regno", 2) :
             ks \in {{}, {"plan", "reg_date"}} }
    \cup { BodyOf(ks, InputValue) : ks \in {{}, {"role"}} }

(* Bodies of an update of record `regno`: any body, or one that renumbers  *)
(* the record, for regno 1; two bodies for the second record               *)
UpdateBodies(regno) ==
  CASE regno = 1 -> PartBodies \cup {With(EmptyBody, "regno", 2)}
    [] regno = 2 -> { BodyOf(ks, InputValue) : ks \in {{"name"}, {"is_deleted"}} }
    [] OTHER     -> {EmptyBody}

DeleteBodies == {EmptyBody, With(EmptyBody, "deleted_by", "eve")}

(* The write-back of updateplan_statusInDB issues its UPDATE for this row  *)
NeedsWriteback(row, clock) ==
  getplan_status(RowDate(row.expiry_date), clock) # StoredStatus(row)

(* `at` is the clock reading when the request was handled                  *)
Request(op, param, body, fail, wbFail) ==
  [op |-> op, param |-> param, body |-> body, fail |-> fail, wbFail |-> wbFail,
   at |-> NullN]

----------------------------------------------------------------------------
(* Requests in flight.  A handler runs until it awaits the store; while it *)
(* waits the other requests run.  A task is one list read or one update    *)
(* between its awaits: `rows` holds the rows its last statement returned,  *)
(* `users` the response rows built so far, `at` the clock when it started, *)
(* `failed` whether the store rejected one of its statements.              *)
TaskIds == {1, 2}

IdleTask ==
  [ op |-> "idle", pc |-> "idle", param |-> NullN, body |-> EmptyBody,
    rows |-> <<>>, users |-> <<>>, code |-> 0, msg |-> "", at |-> NullN,
    failed |-> FALSE ]

Finished(task, code, msg, users) ==
  [task EXCEPT !.pc = "done", !.code = code, !.msg = msg, !.users = users]

----------------------------------------------------------------------------
Init ==
  /\ store = <<>>
  /\ now = Now0
  /\ writes = 0
  /\ req = Request("none", NullN, EmptyBody, "none", {})
  /\ resp = Response("none", 0, "", <<>>)
  /\ stmt = NoStmt
  /\ tasks = [t \in TaskIds |-> IdleTask]

Handled(r, out) ==
  /\ UNCHANGED tasks
  /\ req' = [r EXCEPT !.at = now]
  /\ store' = out.store
  /\ resp' = out.resp
  /\ stmt' = out.stmt
  /\ now' = now

(* A statement can be rejected only if the handler issues it: each action  *)
(* draws the failing statement among those its handler reaches.            *)
Create ==
  /\ writes < MaxWrites
  /\ writes' = writes + 1
  /\ \E raw \in CreateBodies, fail \in BOOLEAN :
       LET out == CreateUser(store, raw, fail, now)
       IN  /\ fail => raw = With(EmptyBody, "regno", 1) /\ out.resp.code = 500
           /\ Handled(Request("create", NullN, raw,
                              IF fail THEN "insert" ELSE "none", {}), out)

Update ==
  /\ writes < MaxWrites
  /\ writes' = writes + 1
  /\ \E regno \in ParamInputs,
        fail \in {"none", "select", "update", "writeback"} :
       \E raw \in UpdateBodies(regno) :
         LET out == UpdateUser(store, regno, raw, fail, now)
         IN  /\ fail \in {"select", "update"} =>
                   regno = 1 /\ raw = BodyOf({"name"}, InputValue)
             /\ fail = "update" =>
                   out.stmt.kind = "update" /\ out.resp.code = 400
             /\ fail = "writeback" =>
                   /\ out.resp.code = 200
                   /\ NeedsWriteback(out.store[out.resp.users[1].id], now)
             /\ Handled(Request("update", regno, raw, fail, {}), out)

Delete ==
  /\ writes < MaxWrites
  /\ writes' = writes + 1
  /\ \E regno \in ParamInputs, raw \in DeleteBodies, fail \in BOOLEAN :
       /\ regno # 1 => raw = EmptyBody /\ ~fail
       /\ fail => raw = EmptyBody
       /\ Handled(Request("delete", regno, raw,
                          IF fail THEN "update" ELSE "none", {}),
                  DeleteUser(store, regno, raw, fail, now))

List ==
  /\ UNCHANGED writes
  /\ \E fail \in BOOLEAN, wbFail \in SUBSET (1..Len(store)) :
       /\ fail => wbFail = {}
       /\ \A i \in wbFail : ~store[i].is_deleted /\ NeedsWriteback(store[i], now)
       /\ Handled(Request("list", NullN, EmptyBody,
                          IF fail THEN "select" ELSE "none", wbFail),
                  ListUsers(store, fail, wbFail, now))

Report ==
  /\ UNCHANGED writes
  /\ \E days \in DaysInputs, fail \in BOOLEAN :
       /\ fail => days = NullN
       /\ Handled(Request("report", days, EmptyBody,
                          IF fail THEN "select" ELSE "none", {}),
                  RenewalsDue(store, days, fail, now))

Check ==
  /\ UNCHANGED writes
  /\ \E regno \in ParamInputs, fail \in BOOLEAN :
       /\ fail => regno = 1
       /\ Handled(Request("check", regno, EmptyBody,
                          IF fail THEN "select" ELSE "none", {}),
                  CheckRegno(store, regno, fail))

Fetch ==
  /\ UNCHANGED writes
  /\ \E x \in RegnoInputs :
       Handled(Request("fetch", x, EmptyBody, "none", {}),
               FetchUser(store, x, FALSE, now))

(* The wall clock advances between requests                                *)
Tick ==
  /\ now < Now0 + MaxClock
  /\ now' = now + 1
  /\ UNCHANGED <<store, writes, req, resp, stmt, tasks>>

Next ==
  \/ Create
  \/ Delete
  \/ Update
  \/ List
  \/ Report
  \/ Check
  \/ Fetch
  \/ Tick

Spec == Init /\ [][Next]_vars

----------------------------------------------------------------------------
(* Interleaved requests: the list read and the update broken at their      *)
(* awaits.  Create and soft delete issue one statement each and stay       *)
(* single steps.                                                           *)

(* The store after updateplan_statusInDB(row), lines 234-247: when the     *)
(* computed status differs from the status of `row` as the caller holds it *)
(* the UPDATE of line 239 rewrites the row that has row.id now.            *)
WriteBack(st, row, fails, clock) ==
  LET wb == updateplan_statusInDB(row, fails, clock)
  IN  IF NeedsWriteback(row, clock) /\ ~fails
      THEN [st EXCEPT ![row.id] = [@ EXCEPT !.plan_status = wb.status,
                                            !.updateat = clock]]
      ELSE st

(* UPDATE ... WHERE regno = $n AND is_deleted = false, line 870: the id of *)
(* the row the statement rewrites, 0 if it matches none.                   *)
UpdateTarget_anyRow(st, regno) == RowByRegno(st, regno)

UpdateTarget(st, regno) ==
  IF \E i \in 1..Len(st) : st[i].regno = regno /\ ~st[i].is_deleted
  THEN CHOOSE i \in 1..Len(st) : st[i].regno = regno /\ ~st[i].is_deleted
  ELSE 0

(* Bodies of the requests that run interleaved                             *)
ConcCreateBodies ==
  { With(BodyOf(ks, InputValue), "regno", 1) : ks \in {{}, {"reg_date"}} }
    \cup { With(EmptyBody, "regno", 2) }

ConcUpdateBodies ==
  { BodyOf(ks, InputValue) :
      ks \in {{"plan"}, {"reg_date"}, {"name"}} }

(* The record the interleaved updates address                              *)
ConcRegnos == {1}

(* A request starts in the lowest idle slot                                *)
Idle(t) ==
  /\ tasks[t].op = "idle"
  /\ \A u \in TaskIds : u < t => tasks[u].op # "idle"

ConcCreate ==
  /\ writes < MaxWrites
  /\ writes' = writes + 1
  /\ \E raw \in ConcCreateBodies :
       Handled(Request("create", NullN, raw, "none", {}),
               CreateUser(store, raw, FALSE, now))

(* GET /api/users up to the data query of line 533                         *)
ListRead ==
  \E t \in TaskIds, fail \in BOOLEAN :
    /\ Idle(t)
    /\ LET rows  == SelectSeq(Reverse(store), NotDeleted)
           begun == [IdleTask EXCEPT !.op = "list", !.at = now,
                                     !.rows = rows, !.failed = fail]
       IN  tasks' = [tasks EXCEPT ![t] =
                       IF fail
                       THEN Finished(begun, 500, "Server error fetching users", <<>>)
                       ELSE IF rows = <<>>
                       THEN Finished(begun, 200, "", <<>>)
                       ELSE [begun EXCEPT !.pc = "writeback"]]
    /\ UNCHANGED <<store, now, writes, req, resp, stmt>>

(* One turn of the loop of lines 537-542 on the next row read; the         *)
(* response of line 544 follows the last row.                              *)
ListWriteBack ==
  \E t \in TaskIds, fails \in BOOLEAN :
    /\ tasks[t].op = "list"
    /\ tasks[t].pc = "writeback"
    /\ LET r     == tasks[t].rows[Len(tasks[t].users) + 1]
           wb    == updateplan_statusInDB(r, fails, now)
           users == Append(tasks[t].users,
                           [rowToUser(r) EXCEPT !.plan_status = wb.status])
           next  == [tasks[t] EXCEPT !.users = users,
                                     !.failed = @ \/ fails]
       IN  /\ fails => NeedsWriteback(r, now)
           /\ store' = WriteBack(store, r, fails, now)
           /\ tasks' = [tasks EXCEPT ![t] =
                          IF Len(users) = Len(tasks[t].rows)
                          THEN Finished(next, 200, "", users)
                          ELSE next]
    /\ UNCHANGED <<now, writes, req, resp, stmt>>

(* PUT /api/users/:regno up to the UPDATE being sent: the SELECT of line   *)
(* 761, the recalculation and the SET clause of lines 771-865.  (A store   *)
(* that rejects the SELECT or the UPDATE leaves the rows as they are; the  *)
(* action Update covers those answers.)                                    *)
UpdateSelect ==
  \E t \in TaskIds, regno \in ConcRegnos, raw \in ConcUpdateBodies :
    /\ Idle(t)
    /\ LET id      == RowByRegno(store, regno)
           begun   == [IdleTask EXCEPT !.op = "update", !.at = now,
                                       !.param = regno]
       IN  tasks' = [tasks EXCEPT ![t] =
             IF id = 0 \/ store[id].is_deleted
             THEN Finished(begun, 404, "User not found for update", <<>>)
             ELSE LET updates == UpdateBody(raw, store[id], now)
                  IN  IF Len(BuildCols(UpdateMapping, updates)) = 0
                      THEN Finished(begun, 400,
                             "No valid fields provided for update", <<>>)
                      ELSE [begun EXCEPT !.pc = "update", !.body = updates,
                                         !.rows = <<store[id]>>]]
    /\ UNCHANGED <<store, now, writes, req, resp, stmt>>

(* The UPDATE of lines 867-878 and its RETURNING row                       *)
UpdateWrite ==
  \E t \in TaskIds :
    /\ tasks[t].op = "update"
    /\ tasks[t].pc = "update"
    /\ LET id      == UpdateTarget(store, tasks[t].param)
           cols    == BuildCols(UpdateMapping, tasks[t].body)
           vals    == BuildValues(UpdateMapping, tasks[t].body)
           updated == [ApplyCols(store[id], cols, vals) EXCEPT !.updated_at = now]
           next    == tasks[t]
       IN  IF id = 0
           THEN /\ tasks' = [tasks EXCEPT ![t] =
                      Finished(next, 404, "User not found for update", <<>>)]
                /\ store' = store
           ELSE IF RegnoTaken(store, updated.regno, id)
           THEN /\ tasks' = [tasks EXCEPT ![t] =
                      Finished(next, 409, "Duplicate regno", <<>>)]
                /\ store' = store
           ELSE /\ tasks' = [tasks EXCEPT ![t] =
                      [next EXCEPT !.pc = "writeback", !.rows = <<updated>>]]
                /\ store' = [store EXCEPT ![id] = updated]
    /\ UNCHANGED <<now, writes, req, resp, stmt>>

(* await updateplan_statusInDB(updated) and the response, lines 880-882    *)
UpdateWriteBack ==
  \E t \in TaskIds, fails \in BOOLEAN :
    /\ tasks[t].op = "update"
    /\ tasks[t].pc = "writeback"
    /\ LET updated == tasks[t].rows[1]
       IN  /\ fails => NeedsWriteback(updated, now)
           /\ store' = WriteBack(store, updated, fails, now)
           /\ tasks' = [tasks EXCEPT ![t] =
                          Finished([@ EXCEPT !.failed = fails], 200, "",
                                   <<rowToUser(updated)>>)]
    /\ UNCHANGED <<now, writes, req, resp, stmt>>

NextConc ==
  \/ ConcCreate
  \/ Delete
  \/ ListRead
  \/ ListWriteBack
  \/ UpdateSelect
  \/ UpdateWrite
  \/ UpdateWriteBack
  \/ Tick

SpecConc == Init /\ [][NextConc]_vars

----------------------------------------------------------------------------
(* Properties                                                              *)

Ids == 1..Len(store)
DayOf(t) == t \div TicksPerDay

(* A step that handles a request (the clock stands still while it does)    *)
Handles(op) == now' = now /\ req'.op = op

(* C1: fetch-one by internal id answers with the full record when the id   *)
(* names an existing record that is not soft-deleted, and with 404 when it *)
(* names no record or a soft-deleted one.                                  *)
C1_FetchOne ==
  resp.op = "fetch" =>
    IF req.param \in Ids /\ ~store[req.param].is_deleted
    THEN /\ resp.code = 200
         /\ Len(resp.users) = 1
         /\ [resp.users[1] EXCEPT !.plan_status = store[req.param].plan_status]
              = rowToUser(store[req.param])
    ELSE resp.code = 404

(* C2: every stored record's amount and valid_days are the Plan Rule's     *)
(* values for its stored plan (unknown or missing plan counting as entry). *)
C2_AmountFollowsPlan ==
  \A i \in Ids :
    /\ store[i].amount = PlanRule(store[i].plan).amount
    /\ store[i].valid_days = PlanRule(store[i].plan).valid_days

(* C3: every stored record that has a registration date satisfies          *)
(* expiry_date = reg_date + valid_days of its current plan, in days.       *)
C3_ExpiryFollowsRegDate ==
  \A i \in Ids :
    store[i].reg_date # NullN =>
      store[i].expiry_date =
        store[i].reg_date + PlanRule(store[i].plan).valid_days * TicksPerDay

(* C4: every row of a list read carries the Status Classifier's value for  *)
(* the row's stored expiry date ('active' iff the expiry day is today or   *)
(* later), whether or not the correcting write-back succeeds.              *)
C4_ListStatusIsClassified ==
  (resp.op = "list" /\ resp.code = 200) =>
    \A k \in 1..Len(resp.users) :
      resp.users[k].plan_status =
        IF resp.users[k].expiry_date # NullN
           /\ DayOf(resp.users[k].expiry_date) < DayOf(req.at)
        THEN "expired" ELSE "active"

(* C5: once a record is soft-deleted, list, fetch-one, update, the         *)
(* existence check and the renewals report answer as if it did not exist:  *)
(* absent from list and report, not-found for fetch and update,            *)
(* exists = false for the check.                                           *)
LiveRegno(st, regno) ==
  \E i \in 1..Len(st) : st[i].regno = regno /\ ~st[i].is_deleted
DeadRegno(st, regno) ==
  /\ ~LiveRegno(st, regno)
  /\ \E i \in 1..Len(st) : st[i].regno = regno /\ st[i].is_deleted

C5_DeletedLooksAbsent ==
  [][ /\ (Handles("check") /\ resp'.code = 200) =>
           resp'.exists = LiveRegno(store, req'.param)
      /\ (Handles("fetch") /\ req'.param \in Ids /\ store[req'.param].is_deleted) =>
           resp'.code = 404
      /\ (Handles("update") /\ req'.fail = "none" /\ DeadRegno(store, req'.param)) =>
           resp'.code = 404 /\ store' = store
      /\ (Handles("list") \/ Handles("report")) =>
           \A k \in 1..Len(resp'.users) : ~store[resp'.users[k].id].is_deleted
    ]_vars

(* C6: the soft-delete flag is not settable through the create or update   *)
(* body: a created record has is_deleted = false, and no update changes a  *)
(* record's is_deleted or deleted_by.                                      *)
C6_FlagNotCallerSettable ==
  [][ /\ (Handles("create") /\ resp'.code = 201) =>
           store'[Len(store')].is_deleted = FALSE
      /\ Handles("update") =>
           \A i \in Ids :
             /\ store'[i].is_deleted = store[i].is_deleted
             /\ store'[i].deleted_by = store[i].deleted_by
    ]_vars

(* C7: a create or update whose body holds none of the whitelisted keys is *)
(* rejected with 400, issues no statement and leaves the store unchanged   *)
(* (for update: addressed to an existing record, the store answering).     *)
WhitelistKeys(mapping) == {mapping[i][1] : i \in 1..Len(mapping)}
WhitelistCols(mapping) == {mapping[i][2] : i \in 1..Len(mapping)}

C7_EmptyMappingRejected ==
  [][ /\ (Handles("create")
           /\ req'.body.keys \cap WhitelistKeys(CreateMapping) = {}) =>
           resp'.code = 400 /\ stmt'.kind = "none" /\ store' = store
      /\ (Handles("update") /\ req'.fail = "none"
           /\ LiveRegno(store, req'.param)
           /\ req'.body.keys \cap WhitelistKeys(UpdateMapping) = {}) =>
           resp'.code = 400 /\ stmt'.kind = "none" /\ store' = store
    ]_vars

(* The whitelist of the handler that issued the last statement             *)
StmtMapping == IF stmt.kind = "insert" THEN CreateMapping ELSE UpdateMapping
PosOf(mapping, col) == CHOOSE j \in 1..Len(mapping) : mapping[j][2] = col

(* columns `cols` with values `vals` are the whitelist entries whose key   *)
(* the processed body defines, in whitelist order, each with its value     *)
FollowsWhitelist(mapping, body, cols, vals) ==
  /\ \A i \in 1..Len(cols) : cols[i] \in WhitelistCols(mapping)
  /\ \A j \in 1..Len(mapping) :
       (mapping[j][1] \in body.keys) <=>
         (\E i \in 1..Len(cols) : cols[i] = mapping[j][2])
  /\ \A i, k \in 1..Len(cols) :
       i < k => PosOf(mapping, cols[i]) < PosOf(mapping, cols[k])
  /\ Len(vals) = Len(cols)
  /\ \A i \in 1..Len(cols) :
       vals[i] = body.v[mapping[PosOf(mapping, cols[i])][1]]

(* C8 as stated: every column the statement writes is a whitelist column,  *)
(* and the written columns are exactly the whitelist entries whose key is  *)
(* defined in the processed body.                                          *)
C8_WrittenColumnsAreWhitelist ==
  stmt.kind # "none" =>
    /\ \A i \in 1..Len(stmt.fixed) : stmt.fixed[i] \in WhitelistCols(StmtMapping)
    /\ FollowsWhitelist(StmtMapping, stmt.body, stmt.cols, stmt.vals)

(* C8: the columns a create or update statement binds to request values    *)
(* are exactly the whitelist entries whose key is defined in the processed *)
(* body, in whitelist order, each with that key's value; besides them the  *)
(* update statement writes only updated_at, set to now() by the statement. *)
C8_BoundColumnsFollowWhitelist ==
  stmt.kind # "none" =>
    /\ FollowsWhitelist(StmtMapping, stmt.body, stmt.cols, stmt.vals)
    /\ stmt.fixed = IF stmt.kind = "update" THEN <<"updated_at">> ELSE <<>>

C8_Witness ==
  /\ stmt.kind = "update"
  /\ resp.code = 200
  /\ "role" \in stmt.body.keys
  /\ Len(stmt.cols) >= 1

(* C9: the renewals-due report answers with exactly the non-deleted        *)
(* records whose expiry day lies in [today, today + horizon] (horizon 10   *)
(* when none is given), each once, with daysLeft = max(0, days from today  *)
(* to the expiry day) and the status 'active'.                             *)
C9_RenewalsDueWindow ==
  (resp.op = "report" /\ resp.code = 200) =>
    LET horizon == IF req.param = NullN THEN 10 ELSE req.param
        today   == DayOf(req.at)
        Due(i)  == /\ ~store[i].is_deleted
                   /\ store[i].expiry_date # NullN
                   /\ DayOf(store[i].expiry_date) >= today
                   /\ DayOf(store[i].expiry_date) <= today + horizon
        K       == 1..Len(resp.users)
    IN  /\ {resp.users[k].id : k \in K} = {i \in Ids : Due(i)}
        /\ \A k, l \in K : k # l => resp.users[k].id # resp.users[l].id
        /\ \A k \in K :
             LET left == DayOf(store[resp.users[k].id].expiry_date) - today
             IN  /\ resp.users[k].daysLeft = IF left > 0 THEN left ELSE 0
                 /\ resp.users[k].plan_status = "active"
                 /\ resp.users[k].regno = store[resp.users[k].id].regno

C9_Witness ==
  /\ resp.op = "report"
  /\ resp.code = 200
  /\ \E k \in 1..Len(resp.users) :
       /\ resp.users[k].daysLeft = 5
       /\ DayOf(store[resp.users[k].id].expiry_date) = DayOf(req.at) + 5

(* C10: the renewals-due report is read-only: handling it leaves every     *)
(* stored record unchanged, also a record whose stored status has drifted  *)
(* from the status its expiry date gives.                                  *)
C10_ReportIsReadOnly ==
  [][ Handles("report") => store' = store ]_vars

C10_Witness ==
  /\ resp.op = "report"
  /\ resp.code = 200
  /\ \E k \in 1..Len(resp.users) :
       NeedsWriteback(store[resp.users[k].id], req.at)

(* An update that succeeds on a body with a plan and no reg_date key       *)
PlanOnlyUpdate ==
  /\ Handles("update")
  /\ resp'.code = 200
  /\ TruthyStr(req'.body, "plan")
  /\ ~Has(req'.body, "reg_date")

(* C11 as stated: an update that changes plan but not reg_date stores      *)
(* expiry_date = the previously stored registration date + valid_days of   *)
(* the new plan, with the new plan's amount and valid_days, leaves         *)
(* reg_date unchanged, and never takes the current date as the baseline.   *)
C11_ExpiryFromStoredRegDate ==
  [][ PlanOnlyUpdate =>
        LET id   == RowByRegno(store, req'.param)
            rule == PlanRule(req'.body.v.plan)
            days == rule.valid_days * TicksPerDay
        IN  /\ store'[id].expiry_date # now + days
            /\ store[id].reg_date # NullN =>
                  store'[id].expiry_date = store[id].reg_date + days
            /\ store'[id].amount = rule.amount
            /\ store'[id].valid_days = rule.valid_days
            /\ store'[id].reg_date = store[id].reg_date
    ]_vars

(* C11: an update that carries a plan and no reg_date stores expiry_date = *)
(* baseline + valid_days of the new plan, where the baseline is the stored *)
(* registration date, or the current instant when the record has none      *)
(* stored; it stores the new plan's amount and valid_days and leaves       *)
(* reg_date unchanged.                                                     *)
C11_ExpiryFromStoredRegDateIfAny ==
  [][ PlanOnlyUpdate =>
        LET id   == RowByRegno(store, req'.param)
            rule == PlanRule(req'.body.v.plan)
            days == rule.valid_days * TicksPerDay
            base == IF store[id].reg_date # NullN
                    THEN store[id].reg_date ELSE now
        IN  /\ store'[id].expiry_date = base + days
            /\ store'[id].amount = rule.amount
            /\ store'[id].valid_days = rule.valid_days
            /\ store'[id].reg_date = store[id].reg_date
    ]_vars

C11_Witness ==
  /\ req.op = "update"
  /\ resp.code = 200
  /\ TruthyStr(req.body, "plan")
  /\ ~Has(req.body, "reg_date")
  /\ LET row == store[resp.users[1].id]
     IN  /\ row.reg_date # NullN
         /\ row.reg_date # req.at
         /\ row.expiry_date = row.reg_date + PLAN_MAP.gold.valid_days * TicksPerDay
         /\ row.amount = PLAN_MAP.gold.amount

(* The fixed messages the handlers answer a rejected statement with        *)
GenericMessages ==
  { "Server error fetching users", "Error fetching renewal due users",
    "Error checking Reg No", "Bad request or invalid ID",
    "Bad request during update", "Bad request during delete" }

(* C13: when the store rejects a statement of any operation with an error  *)
(* other than a uniqueness violation, the failure response carries one of  *)
(* the fixed generic messages and never the store's error text.            *)
C13_FailureMessageIsGeneric ==
  (req.fail # "none" /\ resp.code >= 400) =>
    /\ resp.msg \in GenericMessages
    /\ resp.msg # "err.message"

----------------------------------------------------------------------------
(* Properties of interleaved requests                                      *)

ListDone(task) == task.op = "list" /\ task.pc = "done" /\ task.code = 200

BothListsDone(ts) == \A t \in TaskIds : ListDone(ts[t])

(* The list read `task` read record i with a stored status that differs    *)
(* from the status its expiry date gave when it was read                   *)
ReadDrifted(task, i) ==
  \E k \in 1..Len(task.rows) :
    task.rows[k].id = i /\ NeedsWriteback(task.rows[k], task.at)

(* C12: when two list reads run interleaved and both read the same record  *)
(* with a drifted stored status, then once both have answered (the clock   *)
(* standing still meanwhile) the stored status is the Status Classifier's  *)
(* value for the stored expiry date and both responses carry that value.   *)
C12_ConcurrentReadsAgree ==
  [][ (/\ BothListsDone(tasks')
       /\ ~BothListsDone(tasks)
       /\ \A t \in TaskIds : tasks'[t].at = now') =>
        \A i \in Ids :
          (\A t \in TaskIds : ReadDrifted(tasks'[t], i)) =>
            LET status == getplan_status(RowDate(store'[i].expiry_date), now')
            IN  /\ store'[i].plan_status = status
                /\ \A t \in TaskIds :
                     \A k \in 1..Len(tasks'[t].users) :
                       tasks'[t].users[k].id = i =>
                         tasks'[t].users[k].plan_status = status
    ]_vars

(* list read l and update u have both answered 200, and the update's body  *)
(* carried a plan or a reg_date                                            *)
RaceDone(ts, l, u) ==
  /\ ListDone(ts[l])
  /\ ts[u].op = "update" /\ ts[u].pc = "done" /\ ts[u].code = 200
  /\ TruthyStr(ts[u].body, "plan") \/ TruthyDate(ts[u].body, "reg_date")

(* C14: when a list read and an update that changes plan or reg_date of a  *)
(* record the list read have run interleaved (no statement rejected, the   *)
(* clock standing still), then once both have answered the record's stored *)
(* plan_status is the Status Classifier's value for its stored expiry_date.*)
C14_WriteBackNeverStale ==
  [][ \A l, u \in TaskIds :
        (/\ RaceDone(tasks', l, u)
         /\ ~RaceDone(tasks, l, u)
         /\ tasks'[l].at = now' /\ tasks'[u].at = now'
         /\ ~tasks'[l].failed /\ ~tasks'[u].failed) =>
          LET i == tasks'[u].users[1].id
          IN  (\E k \in 1..Len(tasks'[l].rows) : tasks'[l].rows[k].id = i) =>
                store'[i].plan_status =
                  getplan_status(RowDate(store'[i].expiry_date), now')
    ]_vars

(* The columns a request may still change on a soft-deleted record         *)
KeptFields ==
  DOMAIN NullRow(0) \ {"plan_status", "updated_at", "updateat", "deleted_by"}

(* C15: no step removes a record (the rows keep their number and their     *)
(* ids); a record whose is_deleted is true keeps is_deleted true and keeps *)
(* every field but plan_status, the modification timestamps and            *)
(* deleted_by; an update whose UPDATE statement runs after the record it   *)
(* selected was soft-deleted answers 404 and changes nothing.              *)
C15_SoftDeleteIsPermanent ==
  [][ /\ Len(store') >= Len(store)
      /\ \A i \in Ids : store'[i].id = i
      /\ \A i \in Ids :
           store[i].is_deleted =>
             \A f \in KeptFields : store'[i][f] = store[i][f]
      /\ \A t \in TaskIds :
           (/\ tasks[t].op = "update"
            /\ tasks[t].pc = "update"
            /\ tasks'[t] # tasks[t]
            /\ store[tasks[t].rows[1].id].is_deleted) =>
             /\ tasks'[t].pc = "done"
             /\ tasks'[t].code = 404
             /\ store' = store
    ]_vars

C15_Witness ==
  \E t \in TaskIds :
    /\ tasks[t].op = "update"
    /\ tasks[t].pc = "done"
    /\ tasks[t].code = 404
    /\ Len(tasks[t].rows) = 1
    /\ Has(tasks[t].body, "name")
    /\ LET row == store[tasks[t].rows[1].id]
       IN  /\ row.is_deleted
           /\ row.name = tasks[t].rows[1].name
           /\ row.name # tasks[t].body.v.name

====
